---- MODULE Spec2Model ----
(***************************************************************************)
(* Celarium: anonymize text before it reaches an external processor and    *)
(* restore the original values afterwards.  The repository holds two       *)
(* server programs, src/main.py (Presidio analyzer) and src/app.py (regex  *)
(* rules + GLiNER model); a run of the model is a run of one of them.      *)
(*                                                                         *)
(* A Python str is a sequence of one-character strings; offsets are the    *)
(* 0-based half-open offsets of the source, so text[a:b] is Slice(t,a,b).  *)
(* A Python dict is a sequence of (key, value) records in insertion order. *)
(***************************************************************************)
EXTENDS Integers, Sequences, FiniteSets, TLC

VARIABLES
    program,          \* "main" (src/main.py) or "app" (src/app.py)
    SESSIONS,         \* the module-level dict: session id -> session record
    now,              \* datetime.now(), in units of 30 minutes
    uuid,             \* number of session ids issued so far (uuid.uuid4())
    response,         \* the last HTTP response sent
    text,             \* pipeline: the text given to anonymize
    findings,         \* pipeline: what the detectors report for text
    model_fails,      \* pipeline: the entity model raises on this call
    result,           \* pipeline: <<what the anonymize function returned>>, or <<>>
    restored,         \* pipeline: <<the text restored from the anonymized text>>, or <<>>
    snapshot,         \* event loop: SESSIONS when the requests arrived
    tasks,            \* event loop: one record per request in flight
    running           \* event loop: the task that holds the thread, or 0

vars == <<program, SESSIONS, now, uuid, response, text, findings, model_fails,
          result, restored, snapshot, tasks, running>>

----------------------------------------------------------------------------
(* Bounds of the model *)

MaxLen == 3        \* longest text enumerated
MaxSpans == 3      \* most candidate spans reported for one text
MaxRand == 2       \* random.randint(a, b) draws from the first MaxRand values
MaxSessions == 2   \* sessions created in one run
MaxClock == 3      \* the clock stops advancing here
MaxTasks == 3      \* most requests in flight at once

----------------------------------------------------------------------------
(* Python str and dict *)

Alphabet == {"s", "n"}

Min(a, b) == IF a <= b THEN a ELSE b

\* s[a:b]
Slice(s, a, b) == SubSeq(s, a + 1, b)

\* str.startswith at offset i (0-based)
StartsWithAt(s, i, old) ==
    /\ i + Len(old) <= Len(s)
    /\ \A k \in 1..Len(old) : s[i + k] = old[k]

\* the first offset >= i where old occurs in s, or -1
NextOccurrence(s, i, old) ==
    LET at == {j \in i..(Len(s) - Len(old)) : StartsWithAt(s, j, old)} IN
    IF at = {} THEN -1 ELSE CHOOSE j \in at : \A k \in at : j <= k

\* str.replace(old, new): every non-overlapping occurrence, left to right
RECURSIVE ReplaceFrom(_, _, _, _)
ReplaceFrom(s, i, old, new) ==
    LET j == NextOccurrence(s, i, old) IN
    IF j = -1 THEN Slice(s, i, Len(s))
    ELSE Slice(s, i, j) \o new \o ReplaceFrom(s, j + Len(old), old, new)

RECURSIVE Interleave(_, _)
Interleave(s, new) ==
    IF s = <<>> THEN new ELSE new \o <<Head(s)>> \o Interleave(Tail(s), new)

Replace(s, old, new) ==
    IF old = <<>> THEN Interleave(s, new) ELSE ReplaceFrom(s, 0, old, new)

\* str.lower, str.upper
AlphaLower == <<"a", "b", "c", "d", "e", "f", "g", "h", "i", "j", "k", "l", "m", "n", "o", "p", "q", "r", "s", "t", "u", "v", "w", "x", "y", "z">>
AlphaUpper == <<"A", "B", "C", "D", "E", "F", "G", "H", "I", "J", "K", "L", "M", "N", "O", "P", "Q", "R", "S", "T", "U", "V", "W", "X", "Y", "Z">>

LowerChar(c) ==
    IF \E i \in 1..26 : AlphaUpper[i] = c
    THEN AlphaLower[CHOOSE i \in 1..26 : AlphaUpper[i] = c] ELSE c
UpperChar(c) ==
    IF \E i \in 1..26 : AlphaLower[i] = c
    THEN AlphaUpper[CHOOSE i \in 1..26 : AlphaLower[i] = c] ELSE c

Lower(s) == [i \in 1..Len(s) |-> LowerChar(s[i])]
Upper(s) == [i \in 1..Len(s) |-> UpperChar(s[i])]

\* sub in s
Contains(s, sub) == \E i \in 0..Len(s) : StartsWithAt(s, i, sub)

\* s.split(): the maximal runs of non-whitespace characters
RECURSIVE SplitFrom(_, _, _)
SplitFrom(s, i, word) ==
    IF i > Len(s) THEN (IF word = <<>> THEN <<>> ELSE <<word>>)
    ELSE IF s[i] \in {" ", "\t", "\n"}
         THEN (IF word = <<>> THEN <<>> ELSE <<word>>) \o SplitFrom(s, i + 1, <<>>)
         ELSE SplitFrom(s, i + 1, Append(word, s[i]))

Split(s) == SplitFrom(s, 1, <<>>)

\* not s.strip()
IsBlank(s) == \A i \in 1..Len(s) : s[i] \in {" ", "\t", "\n"}

\* str(n) for n >= 0
Digit(d) == <<"0", "1", "2", "3", "4", "5", "6", "7", "8", "9">>[d + 1]

RECURSIVE Str(_)
Str(n) == IF n < 10 THEN <<Digit(n)>> ELSE Str(n \div 10) \o <<Digit(n % 10)>>

\* dict: key lookup, d[k] = v, len
HasKey(d, k) == \E i \in 1..Len(d) : d[i].key = k

DictSet(d, k, v) ==
    IF HasKey(d, k)
    THEN [i \in 1..Len(d) |-> IF d[i].key = k THEN [key |-> k, value |-> v] ELSE d[i]]
    ELSE Append(d, [key |-> k, value |-> v])

Keys(d) == {d[i].key : i \in 1..Len(d)}

----------------------------------------------------------------------------
(* External collaborators: Faker, uuid, random.  Their return values are    *)
(* drawn from small pools of strings over the alphabet of the texts, so a   *)
(* generated value may also occur in a text.                                *)

faker_name == {<<"n">>, <<"n", "s">>}          \* fake.name()
faker_date == {<<"s">>}                        \* str(fake.date())
faker_other == {<<"s", "n">>}                  \* fake.email(), .phone_number(), ...
faker_first_name == {<<"n">>}                  \* fake.first_name()
faker_last_name == {<<"s">>}                   \* fake.last_name()
uuid_prefix == {<<"0">>, <<"1">>}              \* str(uuid.uuid4())[:k]

\* random.randint(a, b)
randint(a, b) == {n \in a..b : n < a + MaxRand}

----------------------------------------------------------------------------
(* src/main.py: the anonymize / restore functions *)

max_attempts == 10

\* the literal prefixes and constants of generate_fake_value
Lit_Person == <<"P", "e", "r", "s", "o", "n", "_">>
Lit_User == <<"u", "s", "e", "r", "_">>
Lit_AtExample == <<"@", "e", "x", "a", "m", "p", "l", "e", ".", "c", "o", "m">>
Lit_Phone == <<"+", "1", "-", "5", "5", "5", "-">>
Lit_City == <<"C", "i", "t", "y", "_">>
Lit_Date == <<"1", "9", "9", "0", "-", "0", "1", "-", "0", "1">>
Lit_Url == <<"h", "t", "t", "p", "s", ":", "/", "/", "e", "x", "a", "m", "p", "l", "e", ".", "c", "o", "m">>

\* an entity type name as a str (only the unlisted types reach this)
TypeName(entity_type) ==
    CASE entity_type = "NRP" -> <<"N", "R", "P">>
      [] OTHER -> <<"X">>

\* for _ in range(n): v = gen(); if v not in used: return v   ... return fallback
RECURSIVE Attempts(_, _, _, _)
Attempts(n, pool, used_fakes, fallback) ==
    IF n = 0 THEN fallback
    ELSE (pool \ used_fakes)
         \cup (IF pool \cap used_fakes # {}
               THEN Attempts(n - 1, pool, used_fakes, fallback)
               ELSE {})

\* the set of values generate_fake_value may return
generate_fake_value(entity_type, used_fakes) ==
    CASE entity_type = "PERSON" ->
           Attempts(max_attempts, faker_name, used_fakes,
                    {Lit_Person \o u : u \in uuid_prefix})
      [] entity_type = "EMAIL_ADDRESS" ->
           Attempts(max_attempts, faker_other, used_fakes,
                    {Lit_User \o u \o Lit_AtExample : u \in uuid_prefix})
      [] entity_type = "PHONE_NUMBER" ->
           Attempts(max_attempts, faker_other, used_fakes,
                    {Lit_Phone \o u : u \in uuid_prefix})
      [] entity_type = "US_SSN" ->
           Attempts(max_attempts, faker_other, used_fakes,
                    {a \o <<"-">> \o b \o <<"-">> \o c :
                        a \in uuid_prefix, b \in uuid_prefix, c \in uuid_prefix})
      [] entity_type = "LOCATION" ->
           Attempts(max_attempts, faker_other, used_fakes,
                    {Lit_City \o u : u \in uuid_prefix})
      [] entity_type = "DATE_TIME" ->
           Attempts(max_attempts, faker_date, used_fakes, {Lit_Date})
      [] entity_type = "URL" ->
           Attempts(max_attempts, faker_other, used_fakes, {Lit_Url})
      [] OTHER ->
           {TypeName(entity_type) \o <<"_">> \o u : u \in uuid_prefix}

SpanLen(x) == x.end - x.start

\* spans.sort(key=lambda x: (x[0], -(x[1] - x[0]))): the key order
MainKeyLeq(x, y) ==
    \/ x.start < y.start
    \/ x.start = y.start /\ SpanLen(x) >= SpanLen(y)

\* list.sort is stable: x goes after every element whose key is <= its own
RECURSIVE MainInsert(_, _)
MainInsert(sorted, x) ==
    IF sorted = <<>> THEN <<x>>
    ELSE IF MainKeyLeq(sorted[Len(sorted)], x) THEN Append(sorted, x)
    ELSE Append(MainInsert(SubSeq(sorted, 1, Len(sorted) - 1), x), sorted[Len(sorted)])

RECURSIVE MainSort(_)
MainSort(spans) ==
    IF spans = <<>> THEN <<>>
    ELSE MainInsert(MainSort(SubSeq(spans, 1, Len(spans) - 1)), spans[Len(spans)])

\* one turn of the merge loop of anonymize_logic
MainMergeStep(merged, x) ==
    IF merged = <<>> THEN <<x>>
    ELSE LET last == merged[Len(merged)] IN
         IF x.start < last.end
         THEN IF SpanLen(x) > SpanLen(last)
              THEN [merged EXCEPT ![Len(merged)] = x]
              ELSE merged
         ELSE Append(merged, x)

RECURSIVE MainMergeLoop(_, _)
MainMergeLoop(spans, n) ==
    IF n = 0 THEN <<>> ELSE MainMergeStep(MainMergeLoop(spans, n - 1), spans[n])

MainMerge(analyzer_results) ==
    LET spans == MainSort(analyzer_results) IN MainMergeLoop(spans, Len(spans))

\* the substitution loop: every (anonymized_text, mapping) it may end with
RECURSIVE MainBuild(_, _, _, _, _, _, _)
MainBuild(t, merged, i, cursor, parts, mapping, used_fakes) ==
    IF i > Len(merged)
    THEN {[anonymized_text |-> IF cursor < Len(t)
                               THEN parts \o Slice(t, cursor, Len(t)) ELSE parts,
           mapping |-> mapping,
           fakes |-> <<>>]}
    ELSE LET x == merged[i]
             before == IF cursor < x.start THEN Slice(t, cursor, x.start) ELSE <<>>
             original_value == Slice(t, x.start, x.end)
         IN UNION {
              {[r EXCEPT !.fakes = <<fake_value>> \o @] :
                 r \in MainBuild(t, merged, i + 1, x.end,
                                 parts \o before \o fake_value,
                                 DictSet(mapping, fake_value, original_value),
                                 used_fakes \cup {fake_value})}
              : fake_value \in generate_fake_value(x.label, used_fakes)}

\* anonymize_logic(text) once analyzer.analyze has returned analyzer_results
anonymize_logic(t, analyzer_results) ==
    IF analyzer_results = <<>>
    THEN {[anonymized_text |-> t, mapping |-> <<>>, fakes |-> <<>>, merged |-> <<>>]}
    ELSE LET merged == MainMerge(analyzer_results) IN
         {[anonymized_text |-> r.anonymized_text, mapping |-> r.mapping,
           fakes |-> r.fakes, merged |-> merged] :
             r \in MainBuild(t, merged, 1, 0, <<>>, <<>>, {})}

RECURSIVE RestoreLoop(_, _, _)
RestoreLoop(mapping, i, restored_text) ==
    IF i > Len(mapping) THEN restored_text
    ELSE RestoreLoop(mapping, i + 1,
                     Replace(restored_text, mapping[i].key, mapping[i].value))

\* restore_logic(mapping, text): dict order is insertion order
restore_logic(mapping, t) == RestoreLoop(mapping, 1, t)

----------------------------------------------------------------------------
(* Python re: a backtracking matcher over the pattern's syntax tree.  A     *)
(* pattern node is a record: cls (one character of a class), chr (one       *)
(* literal character), wb (\b), seq, alt, rep (greedy {min,max}, max = -1   *)
(* for no limit).  Ends(r, s, i) lists the offsets where a match of r that  *)
(* starts at offset i may end, in the order the engine tries them.          *)

Digits == {"0", "1", "2", "3", "4", "5", "6", "7", "8", "9"}
UpperLetters == {"A", "B", "C", "D", "E", "F", "G", "H", "I", "J", "K", "L", "M",
                 "N", "O", "P", "Q", "R", "S", "T", "U", "V", "W", "X", "Y", "Z"}
LowerLetters == {"a", "b", "c", "d", "e", "f", "g", "h", "i", "j", "k", "l", "m",
                 "n", "o", "p", "q", "r", "s", "t", "u", "v", "w", "x", "y", "z"}
WordChars == Digits \cup UpperLetters \cup LowerLetters \cup {"_"}
SpaceChars == {" ", "\t", "\n"}

IsDigit(c) == c \in Digits
IsUpper(c) == c \in UpperLetters
IsWordChar(c) == c \in WordChars

\* pattern constructors
Cls(chars) == [op |-> "cls", chars |-> chars, neg |-> FALSE]
NotCls(chars) == [op |-> "cls", chars |-> chars, neg |-> TRUE]
Chr(c) == [op |-> "chr", c |-> c]
Wb == [op |-> "wb"]
Cat(items) == [op |-> "seq", items |-> items]
Alt(items) == [op |-> "alt", items |-> items]
Rep(item, min, max) == [op |-> "rep", item |-> item, min |-> min, max |-> max]
Opt(item) == Rep(item, 0, 1)
Plus(item) == Rep(item, 1, -1)
Lit(str) == Cat([i \in 1..Len(str) |-> Chr(str[i])])     \* re.escape(str)

\* \b at offset i: exactly one side is a word character
AtWordBoundary(s, i) ==
    (i > 0 /\ IsWordChar(s[i])) # (i < Len(s) /\ IsWordChar(s[i + 1]))

RECURSIVE Ends(_, _, _, _)
RECURSIVE SeqEnds(_, _, _, _, _)
RECURSIVE AltEnds(_, _, _, _, _)
RECURSIVE RepEnds(_, _, _, _, _)
RECURSIVE RepMore(_, _, _, _, _, _, _)
RECURSIVE SeqMore(_, _, _, _, _, _)

Ends(r, s, i, icase) ==
    CASE r.op = "cls" ->
           IF i < Len(s) /\ ((s[i + 1] \in r.chars) # r.neg) THEN <<i + 1>> ELSE <<>>
      [] r.op = "chr" ->
           IF i < Len(s) /\ (IF icase THEN LowerChar(s[i + 1]) = LowerChar(r.c)
                                      ELSE s[i + 1] = r.c)
           THEN <<i + 1>> ELSE <<>>
      [] r.op = "wb" -> IF AtWordBoundary(s, i) THEN <<i>> ELSE <<>>
      [] r.op = "seq" -> SeqEnds(r.items, 1, s, i, icase)
      [] r.op = "alt" -> AltEnds(r.items, 1, s, i, icase)
      [] r.op = "rep" -> RepEnds(r, 0, s, i, icase)

\* items[k..] matched from offset i
SeqEnds(items, k, s, i, icase) ==
    IF k > Len(items) THEN <<i>>
    ELSE SeqMore(items, k, s, Ends(items[k], s, i, icase), 1, icase)

SeqMore(items, k, s, ends, n, icase) ==
    IF n > Len(ends) THEN <<>>
    ELSE SeqEnds(items, k + 1, s, ends[n], icase) \o SeqMore(items, k, s, ends, n + 1, icase)

AltEnds(items, k, s, i, icase) ==
    IF k > Len(items) THEN <<>>
    ELSE Ends(items[k], s, i, icase) \o AltEnds(items, k + 1, s, i, icase)

\* greedy: one more repetition first, then stop here
RepEnds(r, count, s, i, icase) ==
    (IF r.max = -1 \/ count < r.max
     THEN RepMore(r, count, s, i, Ends(r.item, s, i, icase), 1, icase)
     ELSE <<>>)
    \o (IF count >= r.min THEN <<i>> ELSE <<>>)

RepMore(r, count, s, i, ends, n, icase) ==
    IF n > Len(ends) THEN <<>>
    ELSE (IF ends[n] > i THEN RepEnds(r, count + 1, s, ends[n], icase) ELSE <<>>)
         \o RepMore(r, count, s, i, ends, n + 1, icase)

\* the leftmost match at or after offset pos: <<start, end>>, or <<>>
Search(r, s, pos, icase) ==
    LET at == {p \in pos..Len(s) : Ends(r, s, p, icase) # <<>>} IN
    IF at = {} THEN <<>>
    ELSE LET p == CHOOSE p \in at : \A q \in at : p <= q IN <<p, Ends(r, s, p, icase)[1]>>

\* re.finditer(pattern, s): the non-overlapping matches, left to right
RECURSIVE FindIter(_, _, _, _)
FindIter(r, s, pos, icase) ==
    LET m == Search(r, s, pos, icase) IN
    IF m = <<>> THEN <<>>
    ELSE <<[start |-> m[1], end |-> m[2]]>>
         \o FindIter(r, s, IF m[2] > m[1] THEN m[2] ELSE m[2] + 1, icase)

\* re.sub(pattern, repl, s) with a constant replacement
RECURSIVE SubFrom(_, _, _, _, _)
SubFrom(s, matches, k, pos, repl) ==
    IF k > Len(matches) THEN Slice(s, pos, Len(s))
    ELSE Slice(s, pos, matches[k].start) \o repl
         \o SubFrom(s, matches, k + 1, matches[k].end, repl)

ReSub(r, repl, s, icase) == SubFrom(s, FindIter(r, s, 0, icase), 1, 0, repl)

----------------------------------------------------------------------------
(* src/app.py: detection *)

Letters == UpperLetters \cup LowerLetters
Separators == {"-", ".", " ", "\t", "\n"}            \* [-.\s]

RE_EMAIL_ADDRESS ==
    Cat(<<Wb, Plus(Cls(Letters \cup Digits \cup {".", "_", "%", "+", "-"})), Chr("@"),
          Plus(Cls(Letters \cup Digits \cup {".", "-"})), Chr("."),
          Rep(Cls(Letters \cup {"|"}), 2, -1), Wb>>)
RE_PHONE_NUMBER ==
    Cat(<<Opt(Cat(<<Opt(Chr("+")), Chr("1"), Opt(Cls(Separators))>>)),
          Opt(Chr("(")), Rep(Cls(Digits), 3, 3), Opt(Chr(")")), Opt(Cls(Separators)),
          Rep(Cls(Digits), 3, 3), Opt(Cls(Separators)), Rep(Cls(Digits), 4, 4)>>)
RE_MRN ==
    Cat(<<Wb, Lit(<<"M", "R", "N">>), Cls({"-", "_"}), Plus(Cls(WordChars)), Wb>>)
RE_SSN ==
    Cat(<<Wb, Rep(Cls(Digits), 3, 3), Chr("-"), Rep(Cls(Digits), 2, 2), Chr("-"),
          Rep(Cls(Digits), 4, 4), Wb>>)
RE_INSURANCE_GROUP ==
    Cat(<<Wb, Chr("G"), Rep(Cls(Digits), 5, -1), Wb>>)
RE_INSURANCE_POLICY ==
    Cat(<<Wb, Alt(<<Lit(<<"P", "O", "L">>), Lit(<<"P", "O", "L", "I", "C", "Y">>)>>),
          Opt(Cls({"-", "_"})), Plus(Cls(Digits)), Wb>>)
RE_FULL_ADDRESS ==
    Cat(<<Plus(Cls(Digits)), Plus(Cls(SpaceChars)),
          Plus(Cls(Letters \cup Digits \cup SpaceChars \cup {"."})), Chr(","),
          Plus(Cls(SpaceChars)), Plus(Cls(Letters \cup SpaceChars \cup {"."})), Chr(","),
          Plus(Cls(SpaceChars)), Rep(Cls(UpperLetters), 2, 2), Plus(Cls(SpaceChars)),
          Rep(Cls(Digits), 5, 5), Opt(Cat(<<Chr("-"), Rep(Cls(Digits), 4, 4)>>))>>)

\* the dict REGEX_PATTERNS, in its order
REGEX_PATTERNS ==
    <<[key |-> "EMAIL_ADDRESS", value |-> RE_EMAIL_ADDRESS],
      [key |-> "PHONE_NUMBER", value |-> RE_PHONE_NUMBER],
      [key |-> "MRN", value |-> RE_MRN],
      [key |-> "SSN", value |-> RE_SSN],
      [key |-> "INSURANCE_GROUP", value |-> RE_INSURANCE_GROUP],
      [key |-> "INSURANCE_POLICY", value |-> RE_INSURANCE_POLICY],
      [key |-> "FULL_ADDRESS", value |-> RE_FULL_ADDRESS]>>

AI_LABELS == {"person", "physical address", "organization", "date of birth"}

\* the findings of one pattern: score 1.0 is 100
PatternFindings(t, label, pattern) ==
    LET ms == FindIter(pattern, t, 0, FALSE) IN
    [k \in 1..Len(ms) |->
        [start |-> ms[k].start, end |-> ms[k].end, label |-> label, score |-> 100]]

RECURSIVE RegexFindings(_, _)
RegexFindings(t, k) ==
    IF k > Len(REGEX_PATTERNS) THEN <<>>
    ELSE PatternFindings(t, REGEX_PATTERNS[k].key, REGEX_PATTERNS[k].value)
         \o RegexFindings(t, k + 1)

----------------------------------------------------------------------------
(* src/app.py: fake values *)

faker_city == {<<"n", "s">>}                   \* fake.city()
faker_street == {<<"s", "s">>}                 \* fake.street_address()
faker_state == {<<"N", "S">>}                  \* fake.state_abbr()
faker_zipcode == {<<"1", "1", "1", "1", "1">>} \* fake.zipcode()
faker_ssn == {<<"s">>, <<"s", "n">>}           \* fake.ssn()
faker_birth == {<<"s">>}                       \* str(fake.date_of_birth(...))

\* fake.random_number(digits=k, fix_len=True), as a str
faker_number(k) == {[i \in 1..k |-> "1"], [i \in 1..k |-> "2"]}

generate_clean_name ==
    {f \o <<" ">> \o l : f \in faker_first_name, l \in faker_last_name}

generate_matching_email(fake_name) ==
    IF fake_name = <<>>
    THEN {<<"u", "s", "e", "r">> \o Str(n) \o Lit_AtExample : n \in randint(1000, 9999)}
    ELSE LET parts == Split(Lower(fake_name))
             base == IF Len(parts) >= 2 THEN parts[1] \o parts[2] ELSE parts[1]
         IN {base \o Str(n) \o Lit_AtExample : n \in randint(100, 9999)}

generate_clean_phone ==
    {<<"+", "1", "-">> \o Str(a) \o <<"-">> \o Str(b) \o <<"-">> \o Str(c) :
        a \in randint(200, 999), b \in randint(200, 999), c \in randint(1000, 9999)}

suffixes ==
    {<<"M", "e", "d", "i", "c", "a", "l", " ", "C", "e", "n", "t", "e", "r">>,
     <<"R", "e", "g", "i", "o", "n", "a", "l", " ", "H", "e", "a", "l", "t", "h">>,
     <<"G", "e", "n", "e", "r", "a", "l", " ", "H", "o", "s", "p", "i", "t", "a", "l">>,
     <<"H", "e", "a", "l", "t", "h", " ", "G", "r", "o", "u", "p">>,
     <<"F", "a", "m", "i", "l", "y", " ", "C", "l", "i", "n", "i", "c">>,
     <<"C", "o", "m", "m", "u", "n", "i", "t", "y", " ", "C", "a", "r", "e">>,
     <<"M", "e", "d", "i", "c", "a", "l", " ", "A", "s", "s", "o", "c", "i", "a", "t", "e", "s">>,
     <<"H", "e", "a", "l", "t", "h", " ", "S", "y", "s", "t", "e", "m">>,
     <<"D", "i", "a", "g", "n", "o", "s", "t", "i", "c", "s", " ", "L", "a", "b">>}

generate_medical_org ==
    {prefix \o <<" ">> \o suffix :
        prefix \in faker_city \cup faker_last_name, suffix \in suffixes}

\* a label as a str
LabelStr(label) ==
    CASE label = "EMAIL_ADDRESS" -> <<"E", "M", "A", "I", "L", "_", "A", "D", "D", "R", "E", "S", "S">>
      [] label = "PHONE_NUMBER" -> <<"P", "H", "O", "N", "E", "_", "N", "U", "M", "B", "E", "R">>
      [] label = "MRN" -> <<"M", "R", "N">>
      [] label = "SSN" -> <<"S", "S", "N">>
      [] label = "INSURANCE_GROUP" -> <<"I", "N", "S", "U", "R", "A", "N", "C", "E", "_", "G", "R", "O", "U", "P">>
      [] label = "INSURANCE_POLICY" -> <<"I", "N", "S", "U", "R", "A", "N", "C", "E", "_", "P", "O", "L", "I", "C", "Y">>
      [] label = "FULL_ADDRESS" -> <<"F", "U", "L", "L", "_", "A", "D", "D", "R", "E", "S", "S">>
      [] label = "person" -> <<"p", "e", "r", "s", "o", "n">>
      [] label = "physical address" -> <<"p", "h", "y", "s", "i", "c", "a", "l", " ", "a", "d", "d", "r", "e", "s", "s">>
      [] label = "organization" -> <<"o", "r", "g", "a", "n", "i", "z", "a", "t", "i", "o", "n">>
      [] label = "date of birth" -> <<"d", "a", "t", "e", " ", "o", "f", " ", "b", "i", "r", "t", "h">>

Word_PERSON == <<"P", "E", "R", "S", "O", "N">>
Word_EMAIL == <<"E", "M", "A", "I", "L">>
Word_PHONE == <<"P", "H", "O", "N", "E">>
Word_ADDRESS == <<"A", "D", "D", "R", "E", "S", "S">>
Word_LOCATION == <<"L", "O", "C", "A", "T", "I", "O", "N">>
Word_MRN == <<"M", "R", "N">>
Word_SSN == <<"S", "S", "N">>
Word_DATE == <<"D", "A", "T", "E">>
Word_POLICY == <<"P", "O", "L", "I", "C", "Y">>
Word_GROUP == <<"G", "R", "O", "U", "P">>
Word_ORGANIZATION == <<"O", "R", "G", "A", "N", "I", "Z", "A", "T", "I", "O", "N">>
Lit_REDACTED == <<"R", "E", "D", "A", "C", "T", "E", "D", "_">>

\* every (val, context) get_fake_value may end with
get_fake_value(label, context) ==
    LET L == Upper(LabelStr(label))
        Same(vals) == {[val |-> v, context |-> context] : v \in vals}
    IN IF Contains(L, Word_PERSON)
       THEN {[val |-> v, context |-> [last_person |-> v]] : v \in generate_clean_name}
       ELSE IF Contains(L, Word_EMAIL)
       THEN Same(generate_matching_email(context.last_person))
       ELSE IF Contains(L, Word_PHONE)
       THEN Same(generate_clean_phone)
       ELSE IF Contains(L, Word_ADDRESS) \/ Contains(L, Word_LOCATION)
       THEN Same({a \o <<",", " ">> \o c \o <<",", " ">> \o st \o <<" ">> \o z :
                    a \in faker_street, c \in faker_city, st \in faker_state,
                    z \in faker_zipcode})
       ELSE IF Contains(L, Word_MRN)
       THEN Same({<<"M", "R", "N", "-">> \o n : n \in faker_number(8)})
       ELSE IF Contains(L, Word_SSN)
       THEN Same(faker_ssn)
       ELSE IF Contains(L, Word_DATE)
       THEN Same(faker_birth)
       ELSE IF Contains(L, Word_POLICY)
       THEN Same({<<"P", "O", "L", "-">> \o n : n \in faker_number(9)})
       ELSE IF Contains(L, Word_GROUP)
       THEN Same({<<"G">> \o n : n \in faker_number(5)})
       ELSE IF Contains(L, Word_ORGANIZATION)
       THEN Same(generate_medical_org)
       ELSE Same({Lit_REDACTED \o u : u \in uuid_prefix})

----------------------------------------------------------------------------
(* src/app.py: analyze_and_replace *)

\* findings.sort(key=lambda x: x["start"]), stable
RECURSIVE AppInsert(_, _)
AppInsert(sorted, x) ==
    IF sorted = <<>> THEN <<x>>
    ELSE IF sorted[Len(sorted)].start <= x.start THEN Append(sorted, x)
    ELSE Append(AppInsert(SubSeq(sorted, 1, Len(sorted) - 1), x), sorted[Len(sorted)])

RECURSIVE AppSort(_)
AppSort(fs) ==
    IF fs = <<>> THEN <<>>
    ELSE AppInsert(AppSort(SubSeq(fs, 1, Len(fs) - 1)), fs[Len(fs)])

\* a merge loop that keeps every finding
AppMergeStep_keep_all(merged, f) == Append(merged, f)

\* one turn of the merge loop
AppMergeStep(merged, f) ==
    IF merged = <<>> THEN <<f>>
    ELSE LET last == merged[Len(merged)] IN
         IF f.start < last.end
         THEN IF f.score > last.score \/ SpanLen(f) > SpanLen(last)
              THEN [merged EXCEPT ![Len(merged)] = f]
              ELSE merged
         ELSE Append(merged, f)

RECURSIVE AppMergeLoop(_, _)
AppMergeLoop(fs, n) ==
    IF n = 0 THEN <<>> ELSE AppMergeStep(AppMergeLoop(fs, n - 1), fs[n])

AppMerge(fs) == LET sorted == AppSort(fs) IN AppMergeLoop(sorted, Len(sorted))

\* the matched texts that are left alone ("Skip JSON Keys")
JSON_KEYS ==
    {<<"p", "e", "r", "s", "o", "n", "_", "n", "a", "m", "e">>,
     <<"d", "a", "t", "e", "_", "o", "f", "_", "b", "i", "r", "t", "h">>,
     <<"s", "s", "n">>,
     <<"m", "r", "n">>,
     <<"e", "m", "a", "i", "l">>,
     <<"p", "h", "o", "n", "e">>,
     <<"a", "d", "d", "r", "e", "s", "s">>}

\* the "Generate Fakes" loop: every (mapping, replacements) it may end with
RECURSIVE AppGenerate(_, _, _, _, _, _, _)
AppGenerate(t, merged, i, mapping, replacements, context, used_fakes) ==
    IF i > Len(merged) THEN {[mapping |-> mapping, replacements |-> replacements]}
    ELSE LET ent == merged[i]
             original == Slice(t, ent.start, ent.end)
         IN IF Lower(original) \in JSON_KEYS
            THEN AppGenerate(t, merged, i + 1, mapping, replacements, context, used_fakes)
            ELSE UNION {
                   LET vals == IF g.val \in used_fakes
                               THEN {g.val \o <<"_">> \o Str(n) : n \in randint(1, 99)}
                               ELSE {g.val}
                   IN UNION {
                        AppGenerate(t, merged, i + 1,
                                    DictSet(mapping, fake_val, original),
                                    Append(replacements,
                                           [start |-> ent.start, end |-> ent.end,
                                            fake |-> fake_val]),
                                    g.context, used_fakes \cup {fake_val})
                        : fake_val \in vals}
                   : g \in get_fake_value(ent.label, context)}

\* replacements.sort(key=lambda x: x["start"], reverse=True), stable
RECURSIVE DescInsert(_, _)
DescInsert(sorted, x) ==
    IF sorted = <<>> THEN <<x>>
    ELSE IF sorted[Len(sorted)].start >= x.start THEN Append(sorted, x)
    ELSE Append(DescInsert(SubSeq(sorted, 1, Len(sorted) - 1), x), sorted[Len(sorted)])

\* the replacements left in text order
DescSort_text_order(rs) == rs

RECURSIVE DescSort(_)
DescSort(rs) ==
    IF rs = <<>> THEN <<>>
    ELSE DescInsert(DescSort(SubSeq(rs, 1, Len(rs) - 1)), rs[Len(rs)])

\* text_chars[r["start"]:r["end"]] = list(r["fake"]), for each r in turn
RECURSIVE AppReplace(_, _, _)
AppReplace(text_chars, rs, k) ==
    IF k > Len(rs) THEN text_chars
    ELSE AppReplace(Slice(text_chars, 0, Min(rs[k].start, Len(text_chars)))
                      \o rs[k].fake
                      \o Slice(text_chars, Min(rs[k].end, Len(text_chars)), Len(text_chars)),
                    rs, k + 1)

\* analyze_and_replace(text); ai_preds is what model.predict_entities returns,
\* model_raises that it raises instead
analyze_and_replace(t, ai_preds, model_raises) ==
    LET fs == RegexFindings(t, 1) \o (IF model_raises THEN <<>> ELSE ai_preds)
        merged == AppMerge(fs)
    IN {[anonymized_text |-> AppReplace(t, DescSort(g.replacements), 1),
         mapping |-> g.mapping,
         replacements |-> g.replacements,
         findings |-> fs,
         merged |-> merged] :
           g \in AppGenerate(t, merged, 1, <<>>, <<>>, [last_person |-> <<>>], {})}

----------------------------------------------------------------------------
(* src/app.py: the restoration layers of restore *)

\* the text kept as it is, separators included
get_digits_keep_all(s) == s

\* get_digits(s)
get_digits(s) == SelectSeq(s, IsDigit)

\* sorted(d.items(), key=lambda x: len(x[0]), reverse=True), stable
RECURSIVE LenDescInsert(_, _)
LenDescInsert(sorted, x) ==
    IF sorted = <<>> THEN <<x>>
    ELSE IF Len(sorted[Len(sorted)].key) >= Len(x.key) THEN Append(sorted, x)
    ELSE Append(LenDescInsert(SubSeq(sorted, 1, Len(sorted) - 1), x), sorted[Len(sorted)])

RECURSIVE LenDescSort(_)
LenDescSort(d) ==
    IF d = <<>> THEN <<>>
    ELSE LenDescInsert(LenDescSort(SubSeq(d, 1, Len(d) - 1)), d[Len(d)])

\* 1. Exact Match
ExactLayer(mapping, t) == RestoreLoop(LenDescSort(mapping), 1, t)

\* 2.A phone_map after the loop over mapping.items()
RECURSIVE PhoneMap(_, _, _)
PhoneMap(mapping, i, phone_map) ==
    IF i > Len(mapping) THEN phone_map
    ELSE LET f_digits == get_digits(mapping[i].key) IN
         PhoneMap(mapping, i + 1,
                  IF Len(f_digits) >= 10
                  THEN DictSet(phone_map, f_digits, mapping[i].value)
                  ELSE phone_map)

\* Strategy 1: the 1-to-1 word mapping
RECURSIVE WordPairs(_, _, _, _)
WordPairs(fake_parts, real_parts, i, partial_map) ==
    IF i > Len(fake_parts) THEN partial_map
    ELSE WordPairs(fake_parts, real_parts, i + 1,
                   IF Len(fake_parts[i]) > 2 /\ IsUpper(fake_parts[i][1])
                   THEN DictSet(partial_map, fake_parts[i], real_parts[i])
                   ELSE partial_map)

\* 2.B what one mapping item adds to partial_map
PartialOfItem(fake_full, real_full, partial_map) ==
    IF ~Contains(fake_full, <<" ">>) THEN partial_map
    ELSE LET fake_parts == Split(fake_full)
             real_parts == Split(real_full)
             p1 == IF Len(fake_parts) = Len(real_parts)
                   THEN WordPairs(fake_parts, real_parts, 1, partial_map)
                   ELSE IF Len(fake_parts) > 1 /\ Len(real_parts) > 0
                   THEN LET f_last == fake_parts[Len(fake_parts)]
                            r_last == real_parts[Len(real_parts)]
                        IN IF Len(f_last) > 2 /\ IsUpper(f_last[1])
                           THEN DictSet(partial_map, f_last, r_last)
                           ELSE partial_map
                   ELSE partial_map
         IN IF Len(fake_parts) > 0 /\ Len(fake_parts[1]) > 5
            THEN DictSet(p1, fake_parts[1], real_full)
            ELSE p1

RECURSIVE PartialMap(_, _, _)
PartialMap(mapping, i, partial_map) ==
    IF i > Len(mapping) THEN partial_map
    ELSE PartialMap(mapping, i + 1,
                    PartialOfItem(mapping[i].key, mapping[i].value, partial_map))

\* [\W_]
NonWordOrUnderscore == NotCls(WordChars \ {"_"})

phone_pattern ==
    Cat(<<Opt(Cat(<<Opt(Chr("+")), Chr("1"), Opt(NonWordOrUnderscore)>>)),
          Opt(Chr("(")), Rep(Cls(Digits), 3, 3), Opt(Chr(")")), Opt(NonWordOrUnderscore),
          Rep(Cls(Digits), 3, 3), Opt(NonWordOrUnderscore), Rep(Cls(Digits), 4, 4)>>)

\* phone_replacer(match)
RECURSIVE PhoneLookup(_, _, _, _)
PhoneLookup(phone_map, k, found_digits, found_num) ==
    IF k > Len(phone_map) THEN found_num
    ELSE IF Contains(found_digits, phone_map[k].key) THEN phone_map[k].value
    ELSE PhoneLookup(phone_map, k + 1, found_digits, found_num)

phone_replacer(phone_map, found_num) ==
    PhoneLookup(phone_map, 1, get_digits(found_num), found_num)

\* 3. re.sub(phone_pattern, phone_replacer, text)
RECURSIVE PhoneSub(_, _, _, _, _)
PhoneSub(t, matches, k, pos, phone_map) ==
    IF k > Len(matches) THEN Slice(t, pos, Len(t))
    ELSE Slice(t, pos, matches[k].start)
         \o phone_replacer(phone_map, Slice(t, matches[k].start, matches[k].end))
         \o PhoneSub(t, matches, k + 1, matches[k].end, phone_map)

PhoneLayer(phone_map, t) ==
    PhoneSub(t, FindIter(phone_pattern, t, 0, FALSE), 1, 0, phone_map)

\* 4. the partial fixes, longest key first (the texts of the model hold no
\* backslash, which re.sub would read as an escape in the replacement)
RECURSIVE PartialLayer(_, _, _)
PartialLayer(items, k, t) ==
    IF k > Len(items) THEN t
    ELSE LET fake_part == items[k].key
             real_part == items[k].value
             t1 == ReSub(Cat(<<Wb, Lit(fake_part), Wb>>), real_part, t, FALSE)
             t2 == IF Len(fake_part) > 5
                   THEN ReSub(Lit(fake_part), Replace(real_part, <<" ">>, <<>>), t1, TRUE)
                   ELSE t1
         IN PartialLayer(items, k + 1, t2)

\* the items in the order the exact-replacement loop takes them:
\* mapping.items() in main.py, sorted(mapping.items(), key=len, reverse=True) in app.py
exact_order(prog, mapping) ==
    IF prog = "main" THEN mapping ELSE LenDescSort(mapping)

\* restore, from "text = req.text" to the returned restored_text
restore_text(mapping, t) ==
    LET t1 == ExactLayer(mapping, t)
        partial_map == PartialMap(mapping, 1, <<>>)
        phone_map == PhoneMap(mapping, 1, <<>>)
        t3 == PhoneLayer(phone_map, t1)
    IN PartialLayer(LenDescSort(partial_map), 1, t3)

----------------------------------------------------------------------------
(* The session store and the HTTP handlers *)

\* raise HTTPException(status_code, detail)
Detail(d) == [detail |-> d]

TTL == 2     \* timedelta(hours=1), in clock units of 30 minutes

MAIN_VALID_API_KEYS ==
    {"sk_test_celarium_founder_001", "sk_test_celarium_beta_001",
     "sk_test_celarium_beta_002"}
APP_VALID_API_KEYS == {"sk_test_celarium_founder_001", "sk_test_celarium_beta_001"}

VALID_API_KEYS(prog) == IF prog = "main" THEN MAIN_VALID_API_KEYS ELSE APP_VALID_API_KEYS

\* get_api_key: the key passes
get_api_key(prog, api_key) == api_key # "" /\ api_key \in VALID_API_KEYS(prog)

\* SESSIONS[session_id] = {...}
create_session(sessions, session_id, mapping, api_key, clock) ==
    [i \in DOMAIN sessions \cup {session_id} |->
        IF i = session_id
        THEN [mapping |-> mapping, created |-> clock, api_key |-> api_key]
        ELSE sessions[i]]

\* del SESSIONS[session_id]
del_session(sessions, session_id) ==
    [i \in DOMAIN sessions \ {session_id} |-> sessions[i]]

\* the test of get_session: datetime.now() - session["created"] > timedelta(hours=1)
is_expired(session, clock) == clock - session.created > TTL

\* get_session: the HTTP status it ends with (200: it returns the session) and
\* the store it leaves
get_session(sessions, clock, session_id, api_key) ==
    IF session_id \notin DOMAIN sessions
    THEN [status |-> 404, body |-> Detail("Session not found"), SESSIONS |-> sessions]
    ELSE IF sessions[session_id].api_key # api_key
    THEN [status |-> 401, body |-> Detail("Unauthorized"), SESSIONS |-> sessions]
    ELSE IF is_expired(sessions[session_id], clock)
    THEN [status |-> 410, body |-> Detail("Session expired"),
          SESSIONS |-> del_session(sessions, session_id)]
    ELSE [status |-> 200, body |-> sessions[session_id], SESSIONS |-> sessions]

\* delete_session without the owner test
delete_outcome_no_owner_test(sessions, session_id, api_key) ==
    IF session_id \notin DOMAIN sessions
    THEN [status |-> 404, body |-> Detail("Session not found"), SESSIONS |-> sessions]
    ELSE [status |-> 200, body |-> [status |-> "deleted"],
          SESSIONS |-> del_session(sessions, session_id)]

\* the body of delete_session: status and the store it leaves
delete_outcome(sessions, session_id, api_key) ==
    IF session_id \notin DOMAIN sessions
    THEN [status |-> 404, body |-> Detail("Session not found"), SESSIONS |-> sessions]
    ELSE IF sessions[session_id].api_key # api_key
    THEN [status |-> 401, body |-> Detail("Unauthorized"), SESSIONS |-> sessions]
    ELSE [status |-> 200, body |-> [status |-> "deleted"],
          SESSIONS |-> del_session(sessions, session_id)]

\* the session lookup of app.py's restore: status and the store it leaves
app_lookup(sessions, session_id, api_key) ==
    IF session_id \notin DOMAIN sessions \/ sessions[session_id].api_key # api_key
    THEN [status |-> 404, body |-> Detail("Session not found"), SESSIONS |-> sessions]
    ELSE [status |-> 200, body |-> sessions[session_id], SESSIONS |-> sessions]

None == "None"

Response(op, session_id, api_key, status, body) ==
    [op |-> op, session_id |-> session_id, api_key |-> api_key,
     status |-> status, body |-> body]

\* What the requests of the service model carry
ApiKeys == {"sk_test_celarium_founder_001", "sk_test_celarium_beta_001", ""}
SessionIds == 1..MaxSessions
Text_MRN == <<"M", "R", "N", "-", "7">>
AnonymizeTexts == {<<>>, Text_MRN}
\* what the detector (Presidio / GLiNER) reports for a request text
Detections(prog, t) ==
    {<<>>} \cup
    (IF Len(t) >= 3
     THEN {<<[start |-> 0, end |-> 3,
              label |-> IF prog = "main" THEN "PERSON" ELSE "person", score |-> 50]>>}
     ELSE {})
\* processor output sent to restore: empty, an original, or an echoed fake value
RestoreTexts ==
    {<<>>, Text_MRN}
    \cup UNION {Keys(SESSIONS[i].mapping) : i \in DOMAIN SESSIONS}

NoResponse == Response("none", 0, "", 0, Detail(""))

PipeIdle == text = <<>> /\ findings = <<>> /\ result = <<>> /\ restored = <<>>
LoopIdle == snapshot = None /\ tasks = None /\ running = None

pipeVars == <<text, findings, result, restored>>
loopVars == <<snapshot, tasks, running>>

\* POST /v1/anonymize of src/main.py
main_anonymize(req_text, api_key, analyzer_results, analyzer_raises) ==
    /\ program = "main"
    /\ uuid < MaxSessions
    /\ model_fails' = analyzer_raises
    /\ IF ~get_api_key("main", api_key)
       THEN /\ response' = Response("anonymize", 0, api_key, 401,
                                    Detail("Invalid or missing API Key"))
            /\ UNCHANGED <<SESSIONS, uuid>>
       ELSE IF req_text = <<>> \/ IsBlank(req_text)
       THEN /\ response' = Response("anonymize", 0, api_key, 400,
                                    Detail("Text cannot be empty"))
            /\ UNCHANGED <<SESSIONS, uuid>>
       ELSE IF analyzer_raises
       THEN /\ response' = Response("anonymize", 0, api_key, 500,
                                    Detail("Analysis failed"))
            /\ UNCHANGED <<SESSIONS, uuid>>
       ELSE \E r \in anonymize_logic(req_text, analyzer_results) :
            /\ uuid' = uuid + 1
            /\ SESSIONS' = create_session(SESSIONS, uuid', r.mapping, api_key, now)
            /\ response' = Response("anonymize", uuid', api_key, 200,
                                    [anonymized_text |-> r.anonymized_text,
                                     session_id |-> uuid',
                                     entities_found |-> Len(r.mapping)])
    /\ UNCHANGED <<program, now, pipeVars, loopVars>>

\* POST /v1/restore of src/main.py
main_restore(session_id, req_text, api_key) ==
    /\ program = "main"
    /\ IF ~get_api_key("main", api_key)
       THEN /\ response' = Response("restore", session_id, api_key, 401,
                                    Detail("Invalid or missing API Key"))
            /\ UNCHANGED SESSIONS
       ELSE IF req_text = <<>>
       THEN /\ response' = Response("restore", session_id, api_key, 400,
                                    Detail("session_id and text required"))
            /\ UNCHANGED SESSIONS
       ELSE LET got == get_session(SESSIONS, now, session_id, api_key) IN
            /\ SESSIONS' = got.SESSIONS
            /\ response' =
                 Response("restore", session_id, api_key, got.status,
                          IF got.status = 200
                          THEN [restored_text |-> restore_logic(got.body.mapping, req_text)]
                          ELSE got.body)
    /\ model_fails' = FALSE
    /\ UNCHANGED <<program, now, uuid, pipeVars, loopVars>>

\* DELETE /v1/sessions/{session_id} of src/main.py
delete_session(session_id, api_key) ==
    /\ program = "main"
    /\ IF ~get_api_key("main", api_key)
       THEN /\ response' = Response("delete", session_id, api_key, 401,
                                    Detail("Invalid or missing API Key"))
            /\ UNCHANGED SESSIONS
       ELSE LET out == delete_outcome(SESSIONS, session_id, api_key) IN
            /\ SESSIONS' = out.SESSIONS
            /\ response' = Response("delete", session_id, api_key, out.status,
                                    out.body)
    /\ model_fails' = FALSE
    /\ UNCHANGED <<program, now, uuid, pipeVars, loopVars>>

\* POST /v1/anonymize of src/app.py, for a str in req.text
app_anonymize(req_text, api_key, ai_preds, model_raises) ==
    /\ program = "app"
    /\ uuid < MaxSessions
    /\ model_fails' = model_raises
    /\ IF ~get_api_key("app", api_key)
       THEN /\ response' = Response("anonymize", 0, api_key, 401,
                                    Detail("Invalid API Key"))
            /\ UNCHANGED <<SESSIONS, uuid>>
       ELSE \E r \in analyze_and_replace(req_text, ai_preds, model_raises) :
            /\ uuid' = uuid + 1
            /\ SESSIONS' = create_session(SESSIONS, uuid', r.mapping, api_key, now)
            /\ response' = Response("anonymize", uuid', api_key, 200,
                                    [anonymized_text |-> r.anonymized_text,
                                     session_id |-> uuid',
                                     entities_found |-> Len(r.mapping)])
    /\ UNCHANGED <<program, now, pipeVars, loopVars>>

\* POST /v1/restore of src/app.py
app_restore(session_id, req_text, api_key) ==
    /\ program = "app"
    /\ IF ~get_api_key("app", api_key)
       THEN /\ response' = Response("restore", session_id, api_key, 401,
                                    Detail("Invalid API Key"))
            /\ UNCHANGED SESSIONS
       ELSE LET got == app_lookup(SESSIONS, session_id, api_key) IN
            /\ SESSIONS' = got.SESSIONS
            /\ response' =
                 Response("restore", session_id, api_key, got.status,
                          IF got.status = 200
                          THEN [restored_text |-> restore_text(got.body.mapping, req_text)]
                          ELSE got.body)
    /\ model_fails' = FALSE
    /\ UNCHANGED <<program, now, uuid, pipeVars, loopVars>>

\* time passes
Tick ==
    /\ now < MaxClock
    /\ now' = now + 1
    /\ response' = NoResponse
    /\ model_fails' = FALSE
    /\ UNCHANGED <<program, SESSIONS, uuid, pipeVars, loopVars>>

Init ==
    /\ program \in {"main", "app"}
    /\ SESSIONS = <<>>
    /\ now = 0
    /\ uuid = 0
    /\ response = NoResponse
    /\ model_fails = FALSE
    /\ PipeIdle
    /\ LoopIdle

Next ==
    \/ \E t \in AnonymizeTexts, k \in ApiKeys, raises \in BOOLEAN :
         \E d \in (IF raises THEN {<<>>} ELSE Detections("main", t)) :
            main_anonymize(t, k, d, raises)
    \/ \E id \in SessionIds, t \in RestoreTexts, k \in ApiKeys : main_restore(id, t, k)
    \/ \E id \in SessionIds, k \in ApiKeys : delete_session(id, k)
    \/ \E t \in AnonymizeTexts, k \in ApiKeys, raises \in BOOLEAN :
         \E d \in (IF raises THEN {<<>>} ELSE Detections("app", t)) :
            app_anonymize(t, k, d, raises)
    \/ \E id \in SessionIds, t \in RestoreTexts, k \in ApiKeys : app_restore(id, t, k)
    \/ Tick

Spec == Init /\ [][Next]_vars

----------------------------------------------------------------------------
(* Claims about the session store, checked under Spec *)

\* a restore request that passed the key check and the 400 check
StoreRestore(r) ==
    r.op = "restore" /\ get_api_key(program, r.api_key) /\ r.status # 400

\* C1: every restore request with a valid API key is decided by the store:
\* 404 for an id not in the store, 401 for an id stored under another key,
\* 410 for the owner's id older than the TTL, and restored text only otherwise,
\* at every restore entry point (main.py and app.py).
C1_RestoreDecidedByStore ==
    [][StoreRestore(response') =>
         LET id == response'.session_id
             st == response'.status
         IN IF id \notin DOMAIN SESSIONS THEN st = 404
            ELSE IF SESSIONS[id].api_key # response'.api_key THEN st = 401
            ELSE IF now - SESSIONS[id].created > TTL THEN st = 410
            ELSE st = 200 /\ "restored_text" \in DOMAIN response'.body]_vars

\* C2: a restore by the owner on a session older than the TTL fails with 410
\* and removes the session; an id once removed stays unknown, so every later
\* restore or delete of it ends 404; text is never restored from a session
\* older than the TTL.
C2_ExpiryLifecycle ==
    [][/\ \A id \in DOMAIN SESSIONS :
            (/\ StoreRestore(response')
             /\ response'.session_id = id
             /\ response'.api_key = SESSIONS[id].api_key
             /\ now - SESSIONS[id].created > TTL)
            => (response'.status = 410 /\ id \notin DOMAIN SESSIONS')
       /\ \A id \in 1..uuid : id \notin DOMAIN SESSIONS => id \notin DOMAIN SESSIONS'
       /\ (/\ response'.op \in {"restore", "delete"}
           /\ get_api_key(program, response'.api_key)
           /\ response'.status # 400
           /\ response'.session_id \notin DOMAIN SESSIONS)
          => response'.status = 404]_vars

\* C3: DELETE /v1/sessions/{id} ends 404 when the id is not in the store, 401 when
\* it is stored under another key (the store unchanged), and 200 for the owner,
\* after which exactly that id is gone; every other session is left as it was,
\* and a removed id stays unknown to later restore and delete requests.
C3_DeleteOutcomes ==
    [][/\ response'.op = "delete" =>
            LET id == response'.session_id
                st == response'.status
            IN IF ~get_api_key(program, response'.api_key)
               THEN st = 401 /\ SESSIONS' = SESSIONS
               ELSE IF id \notin DOMAIN SESSIONS
               THEN st = 404 /\ SESSIONS' = SESSIONS
               ELSE IF SESSIONS[id].api_key # response'.api_key
               THEN st = 401 /\ SESSIONS' = SESSIONS
               ELSE /\ st = 200
                    /\ DOMAIN SESSIONS' = DOMAIN SESSIONS \ {id}
                    /\ \A other \in DOMAIN SESSIONS' : SESSIONS'[other] = SESSIONS[other]
       /\ \A id \in 1..uuid : id \notin DOMAIN SESSIONS => id \notin DOMAIN SESSIONS'
       /\ (/\ response'.op \in {"restore", "delete"}
           /\ get_api_key(program, response'.api_key)
           /\ response'.status # 400
           /\ response'.session_id \notin DOMAIN SESSIONS)
          => response'.status = 404]_vars

\* C3 witness: the owner's delete succeeded, its id is gone, another session stays
C3_Witness ==
    /\ response.op = "delete"
    /\ response.status = 200
    /\ response.session_id \notin DOMAIN SESSIONS
    /\ DOMAIN SESSIONS # {}

\* C9: when the entity-detection model fails during anonymize, the request
\* still answers 200 with anonymized text and its session is in the store.
C9_DetectionFailureNotSurfaced ==
    (/\ response.op = "anonymize"
     /\ model_fails
     /\ get_api_key(program, response.api_key)
     /\ response.status # 400)
    => (/\ response.status = 200
        /\ response.session_id \in DOMAIN SESSIONS
        /\ "anonymized_text" \in DOMAIN response.body)

----------------------------------------------------------------------------
(* The pipeline functions on enumerated inputs: a text, what the detector  *)
(* (analyzer.analyze / model.predict_entities) reports for it or that it   *)
(* raises, then the anonymize function, then restore on its output.        *)

\* every str over the alphabet of length n
RECURSIVE StrsOfLen(_)
StrsOfLen(n) ==
    IF n = 0 THEN {<<>>}
    ELSE {Append(t, c) : t \in StrsOfLen(n - 1), c \in Alphabet}

Texts == UNION {StrsOfLen(n) : n \in 0..MaxLen}

\* the (label, score) a reported span may carry; scores are in hundredths
\* (the model is asked for threshold=0.35)
Kinds(prog) ==
    IF prog = "main"
    THEN {[label |-> "PERSON", score |-> 85], [label |-> "DATE_TIME", score |-> 85]}
    ELSE {[label |-> "person", score |-> 50], [label |-> "person", score |-> 100]}

\* the spans of a text: 0 <= start < end <= len(text)
Candidates(prog, t) ==
    {[start |-> a, end |-> b, label |-> k.label, score |-> k.score] :
        a \in 0..(Len(t) - 1), b \in 1..Len(t), k \in Kinds(prog)}
    \cap {x \in [start : 0..Len(t), end : 0..Len(t),
                 label : {"PERSON", "DATE_TIME", "person"}, score : {50, 85, 100}] :
            x.start < x.end}

RECURSIVE SeqsUpTo(_, _)
SeqsUpTo(S, n) ==
    IF n = 0 THEN {<<>>}
    ELSE SeqsUpTo(S, n - 1)
         \cup {Append(q, x) : q \in {q \in SeqsUpTo(S, n - 1) : Len(q) = n - 1}, x \in S}

PipeInit ==
    /\ program \in {"main", "app"}
    /\ text \in Texts
    /\ model_fails \in BOOLEAN
    /\ findings \in (IF model_fails THEN {<<>>} ELSE SeqsUpTo(Candidates(program, text), MaxSpans))
    /\ result = <<>>
    /\ restored = <<>>
    /\ SESSIONS = <<>> /\ now = 0 /\ uuid = 0 /\ response = NoResponse
    /\ LoopIdle

storeVars == <<program, SESSIONS, now, uuid, response>>

\* src/main.py: anonymize_logic(text); the analyzer's exception becomes a 500
pipe_anonymize_logic ==
    /\ program = "main"
    /\ result = <<>>
    /\ IF model_fails
       THEN result' = <<[raised |-> 500]>>
       ELSE \E r \in anonymize_logic(text, findings) : result' = <<r>>
    /\ UNCHANGED <<storeVars, text, findings, model_fails, restored, loopVars>>

\* src/app.py: analyze_and_replace(text)
pipe_analyze_and_replace ==
    /\ program = "app"
    /\ result = <<>>
    /\ \E r \in analyze_and_replace(text, findings, model_fails) : result' = <<r>>
    /\ UNCHANGED <<storeVars, text, findings, model_fails, restored, loopVars>>

\* restore of the anonymized text, unmodified, with the mapping
pipe_restore ==
    /\ result # <<>>
    /\ "mapping" \in DOMAIN result[1]
    /\ restored = <<>>
    /\ restored' = <<IF program = "main"
                     THEN restore_logic(result[1].mapping, result[1].anonymized_text)
                     ELSE restore_text(result[1].mapping, result[1].anonymized_text)>>
    /\ UNCHANGED <<storeVars, text, findings, model_fails, result, loopVars>>

PipeNext ==
    \/ pipe_anonymize_logic
    \/ pipe_analyze_and_replace
    \/ pipe_restore

SpecPipe == PipeInit /\ [][PipeNext]_vars

----------------------------------------------------------------------------
(* Claims about the pipeline functions, checked under SpecPipe *)

\* the anonymize function has returned a text and a mapping
Anonymized == result # <<>> /\ "mapping" \in DOMAIN result[1]

\* the candidate spans the merger was given: analyzer_results in main.py, the
\* list findings (rules, then model) in app.py
InputCandidates == IF program = "main" THEN findings ELSE result[1].findings

\* the spans that were replaced, in text order, each with its fake value
Replaced ==
    IF program = "main"
    THEN [i \in 1..Len(result[1].merged) |->
            [start |-> result[1].merged[i].start, end |-> result[1].merged[i].end,
             fake |-> result[1].fakes[i]]]
    ELSE result[1].replacements

Overlap(a, b) == a.start < b.end /\ b.start < a.end

\* C4: restore applied to the unmodified anonymized text with the mapping
\* returns exactly the input text.
C4_RoundTrip == restored # <<>> => restored[1] = text

\* C5: the merger's output is ordered by start ascending, consecutive spans do
\* not overlap (a.end <= b.start), and every output span is an input candidate.
C5_MergedOrderedDisjoint ==
    Anonymized =>
        LET merged == result[1].merged IN
        /\ \A i \in 1..(Len(merged) - 1) :
              /\ merged[i].start < merged[i + 1].start
              /\ merged[i].end <= merged[i + 1].start
        /\ \A i \in 1..Len(merged) :
              \E j \in 1..Len(InputCandidates) : InputCandidates[j] = merged[i]

\* C5 witness: three candidates, two of them overlapping, merged into two spans
C5_Witness ==
    /\ Anonymized
    /\ Len(InputCandidates) = 3
    /\ \E i, j \in 1..3 : i # j /\ Overlap(InputCandidates[i], InputCandidates[j])
    /\ Len(result[1].merged) = 2

\* the candidates tied to candidate i through chains of pairwise overlap
RECURSIVE Chain(_, _, _)
Chain(cands, reached, n) ==
    IF n = 0 THEN reached
    ELSE Chain(cands,
               reached \cup {j \in 1..Len(cands) :
                               \E i \in reached : Overlap(cands[i], cands[j])},
               n - 1)

Cluster(cands, i) == Chain(cands, {i}, Len(cands))

\* a is at least b in the order (confidence descending, then length descending)
AtLeast(a, b) == a.score > b.score \/ (a.score = b.score /\ SpanLen(a) >= SpanLen(b))

\* C6: the merger retains exactly one span of each cluster of overlapping
\* candidates, and it is a maximum of the cluster under (confidence, length).
C6_OnePerClusterBest ==
    Anonymized =>
        LET merged == result[1].merged
            cands == InputCandidates
        IN \A i \in 1..Len(cands) :
              LET kept == {k \in 1..Len(merged) :
                             \E j \in Cluster(cands, i) : cands[j] = merged[k]}
              IN /\ Cardinality(kept) = 1
                 /\ \A k \in kept : \A j \in Cluster(cands, i) : AtLeast(merged[k], cands[j])

\* C7: within one call the fake values of the replaced spans are pairwise
\* different, so the mapping has one key per replaced span, each bound to that
\* span's original text (entities_found is the number of keys).
C7_FakesDistinct ==
    Anonymized =>
        LET reps == Replaced
            mapping == result[1].mapping
        IN /\ \A i, j \in 1..Len(reps) : i # j => reps[i].fake # reps[j].fake
           /\ Len(mapping) = Len(reps)
           /\ \A i \in 1..Len(reps) :
                 \E k \in 1..Len(mapping) :
                    /\ mapping[k].key = reps[i].fake
                    /\ mapping[k].value = Slice(text, reps[i].start, reps[i].end)

\* how far the characters at offset p and after have moved
RECURSIVE Shift(_, _, _)
Shift(reps, k, p) ==
    IF k = 0 THEN 0
    ELSE Shift(reps, k - 1, p)
         + (IF reps[k].end <= p THEN Len(reps[k].fake) - (reps[k].end - reps[k].start) ELSE 0)

\* the merged spans that are not skipped as JSON keys
Retained ==
    IF program = "main" THEN result[1].merged
    ELSE SelectSeq(result[1].merged,
                   LAMBDA m : Lower(Slice(text, m.start, m.end)) \notin JSON_KEYS)

\* C8: the anonymized text is the text with each retained merged span replaced
\* by its fake value and every other character kept, in order; with no span
\* detected the text comes back unchanged with an empty mapping.
C8_OutsidePreserved ==
    Anonymized =>
        LET reps == Replaced
            out == result[1].anonymized_text
            n == Len(reps)
        IN /\ Len(reps) = Len(Retained)
           /\ \A i \in 1..n :
                 reps[i].start = Retained[i].start /\ reps[i].end = Retained[i].end
           /\ Len(out) = Len(text) + Shift(reps, n, Len(text))
           /\ \A p \in 0..(Len(text) - 1) :
                 (\A i \in 1..n : p < reps[i].start \/ p >= reps[i].end)
                 => out[p + Shift(reps, n, p) + 1] = text[p + 1]
           /\ \A i \in 1..n : \A j \in 1..Len(reps[i].fake) :
                 out[reps[i].start + Shift(reps, n, reps[i].start) + j] = reps[i].fake[j]
           /\ (InputCandidates = <<>> => out = text /\ result[1].mapping = <<>>)

\* C8 witness: two spans replaced by fake values of another length, around a
\* character that is kept
C8_Witness ==
    /\ Anonymized
    /\ Len(Replaced) = 2
    /\ Replaced[1].end < Replaced[2].start
    /\ \E i \in 1..2 : Len(Replaced[i].fake) # Replaced[i].end - Replaced[i].start
    /\ result[1].anonymized_text # text

\* the candidates as the merger scans them, and the accepted spans after n turns
Scanned == IF program = "main" THEN MainSort(InputCandidates) ELSE AppSort(InputCandidates)

Accepted(n) ==
    IF program = "main" THEN MainMergeLoop(Scanned, n) ELSE AppMergeLoop(Scanned, n)

\* candidate f beats the accepted span last: strictly higher confidence, or
\* equal confidence and strictly greater length
Beats(f, last) ==
    f.score > last.score \/ (f.score = last.score /\ SpanLen(f) > SpanLen(last))

\* C13: the merger scans the candidates by start ascending, longer span first
\* on ties, and a candidate that starts before the end of the last accepted
\* span and does not beat it (strictly higher confidence, or equal confidence
\* and strictly greater length) is discarded, the accepted span kept.
C13_ReplaceOnlyIfBetter ==
    (Anonymized /\ InputCandidates # <<>>) =>
        /\ \A i \in 1..(Len(Scanned) - 1) :
              \/ Scanned[i].start < Scanned[i + 1].start
              \/ /\ Scanned[i].start = Scanned[i + 1].start
                 /\ SpanLen(Scanned[i]) >= SpanLen(Scanned[i + 1])
        /\ \A n \in 1..Len(Scanned) :
              LET before == Accepted(n - 1)
                  f == Scanned[n]
              IN (/\ before # <<>>
                  /\ f.start < before[Len(before)].end
                  /\ ~Beats(f, before[Len(before)]))
                 => Accepted(n) = before

\* C14: the exact-replacement layer of restore takes the mapping's entries
\* longest fake value first, so an entry whose fake value holds another
\* entry's fake value as a substring is replaced before that shorter entry.
C14_LongestFakeFirst ==
    Anonymized =>
        LET order == exact_order(program, result[1].mapping) IN
        /\ \A i, j \in 1..Len(order) :
              i < j => Len(order[i].key) >= Len(order[j].key)
        /\ \A i, j \in 1..Len(order) :
              (/\ Len(order[i].key) < Len(order[j].key)
               /\ Contains(order[j].key, order[i].key))
              => j < i

----------------------------------------------------------------------------
(* Requests in flight on the event loop.  The handlers are coroutines       *)
(* (async def) whose bodies hold no await, so the loop runs a handler from  *)
(* its first statement to its return before it starts the next one.  Each   *)
(* statement that reads or writes SESSIONS is a step of its own.            *)

ConcMapping == <<[key |-> <<"n">>, value |-> <<"s">>]>>
ConcText == <<"n">>
ConcKeys == {"sk_test_celarium_founder_001", "sk_test_celarium_beta_001"}

NoOutcome == [status |-> 0, body |-> Detail("")]

\* the requests addressed to session 1: restore, and DELETE where it is routed
ConcRequests(prog) ==
    {[op |-> o, session_id |-> 1, api_key |-> k, pc |-> "pending",
      session |-> <<>>, outcome |-> NoOutcome] :
        o \in (IF prog = "main" THEN {"restore", "delete"} ELSE {"restore"}),
        k \in ConcKeys}

ConcInit ==
    /\ program \in {"main", "app"}
    /\ now \in {0, MaxClock}
    /\ SESSIONS = create_session(<<>>, 1, ConcMapping, "sk_test_celarium_founder_001", 0)
    /\ snapshot = SESSIONS
    /\ tasks \in {q \in SeqsUpTo(ConcRequests(program), MaxTasks) : Len(q) >= 2}
    /\ running = 0
    /\ uuid = 1
    /\ response = NoResponse
    /\ model_fails = FALSE
    /\ PipeIdle

\* every handler started at once, as threads would run them
loop_free_threadpool == TRUE

\* the loop starts a handler only when no handler is running
loop_free == running = 0

concFrame == <<program, now, uuid, response, model_fails, pipeVars, snapshot>>

\* the handler of task i returns or raises: its response is sent
Finish(i, status, body) ==
    /\ tasks' = [tasks EXCEPT ![i].pc = "done",
                              ![i].outcome = [status |-> status, body |-> body]]
    /\ running' = IF running = i THEN 0 ELSE running

\* the loop starts the handler of a request
conc_dispatch(i) ==
    /\ tasks[i].pc = "pending"
    /\ loop_free
    /\ running' = i
    /\ tasks' = [tasks EXCEPT ![i].pc = "get"]
    /\ UNCHANGED <<SESSIONS, concFrame>>

\* session = SESSIONS.get(session_id)
conc_get(i) ==
    /\ tasks[i].pc = "get"
    /\ tasks' = [tasks EXCEPT
                   ![i].pc = "check",
                   ![i].session = IF tasks[i].session_id \in DOMAIN SESSIONS
                                  THEN <<SESSIONS[tasks[i].session_id]>> ELSE <<>>]
    /\ UNCHANGED <<SESSIONS, running, concFrame>>

\* if not session: 404; if session["api_key"] != api_key: 401 (app.py: 404 for both)
conc_check(i) ==
    /\ tasks[i].pc = "check"
    /\ LET t == tasks[i] IN
       IF t.session = <<>>
       THEN Finish(i, 404, Detail("Session not found"))
       ELSE IF t.session[1].api_key # t.api_key
       THEN IF program = "main"
            THEN Finish(i, 401, Detail("Unauthorized"))
            ELSE Finish(i, 404, Detail("Session not found"))
       ELSE /\ tasks' = [tasks EXCEPT ![i].pc =
                           IF program = "app" THEN "restore"
                           ELSE IF t.op = "restore" THEN "expire" ELSE "del"]
            /\ UNCHANGED running
    /\ UNCHANGED <<SESSIONS, concFrame>>

\* get_session: if the session is older than the TTL, del SESSIONS[session_id]
\* and 410; del raises KeyError when the id is gone
conc_expire(i) ==
    /\ tasks[i].pc = "expire"
    /\ LET t == tasks[i] IN
       IF is_expired(t.session[1], now)
       THEN IF t.session_id \in DOMAIN SESSIONS
            THEN /\ SESSIONS' = del_session(SESSIONS, t.session_id)
                 /\ Finish(i, 410, Detail("Session expired"))
            ELSE /\ Finish(i, 500, Detail("KeyError"))
                 /\ UNCHANGED SESSIONS
       ELSE /\ tasks' = [tasks EXCEPT ![i].pc = "restore"]
            /\ UNCHANGED <<SESSIONS, running>>
    /\ UNCHANGED concFrame

\* delete_session: del SESSIONS[session_id]; return {"status": "deleted"}
conc_del(i) ==
    /\ tasks[i].pc = "del"
    /\ LET t == tasks[i] IN
       IF t.session_id \in DOMAIN SESSIONS
       THEN /\ SESSIONS' = del_session(SESSIONS, t.session_id)
            /\ Finish(i, 200, [status |-> "deleted"])
       ELSE /\ Finish(i, 500, Detail("KeyError"))
            /\ UNCHANGED SESSIONS
    /\ UNCHANGED concFrame

\* restore: the text restored with the mapping of the session it holds
conc_restore(i) ==
    /\ tasks[i].pc = "restore"
    /\ Finish(i, 200,
              [restored_text |->
                 IF program = "main"
                 THEN restore_logic(tasks[i].session[1].mapping, ConcText)
                 ELSE restore_text(tasks[i].session[1].mapping, ConcText)])
    /\ UNCHANGED <<SESSIONS, concFrame>>

ConcNext ==
    \/ \E i \in 1..Len(tasks) : conc_dispatch(i)
    \/ \E i \in 1..Len(tasks) : conc_get(i)
    \/ \E i \in 1..Len(tasks) : conc_check(i)
    \/ \E i \in 1..Len(tasks) : conc_expire(i)
    \/ \E i \in 1..Len(tasks) : conc_del(i)
    \/ \E i \in 1..Len(tasks) : conc_restore(i)

SpecConc == ConcInit /\ [][ConcNext]_vars

----------------------------------------------------------------------------
(* Claims about requests in flight, checked under SpecConc *)

\* the handler of request t run alone on the store: what it answers, what it leaves
Serial(t, sessions) ==
    IF t.op = "delete" THEN delete_outcome(sessions, t.session_id, t.api_key)
    ELSE LET got == IF program = "main"
                    THEN get_session(sessions, now, t.session_id, t.api_key)
                    ELSE app_lookup(sessions, t.session_id, t.api_key)
         IN [status |-> got.status,
             body |-> IF got.status # 200 THEN got.body
                      ELSE [restored_text |->
                              IF program = "main"
                              THEN restore_logic(got.body.mapping, ConcText)
                              ELSE restore_text(got.body.mapping, ConcText)],
             SESSIONS |-> got.SESSIONS]

\* the requests run one after the other in this order answer as they did and
\* leave the store as it is
RECURSIVE SerialOK(_, _, _)
SerialOK(order, k, sessions) ==
    IF k > Len(tasks) THEN sessions = SESSIONS
    ELSE LET r == Serial(tasks[order[k]], sessions) IN
         /\ tasks[order[k]].outcome = [status |-> r.status, body |-> r.body]
         /\ SerialOK(order, k + 1, r.SESSIONS)

Orders ==
    {o \in [1..Len(tasks) -> 1..Len(tasks)] :
        \A a, b \in 1..Len(tasks) : a # b => o[a] # o[b]}

AllDone == \A i \in 1..Len(tasks) : tasks[i].pc = "done"

\* task i has seen the session and has not answered yet
Observes(i) ==
    tasks[i].pc \in {"check", "expire", "del", "restore"} /\ tasks[i].session # <<>>

\* task i is between its existence check and its removal of the session
Removing(i) ==
    /\ tasks[i].pc \in {"check", "expire", "del"}
    /\ tasks[i].session # <<>>
    /\ program = "main"
    /\ tasks[i].session[1].api_key = tasks[i].api_key
    /\ (tasks[i].op = "delete" \/ is_expired(tasks[i].session[1], now))

\* C10: whatever the order in which the loop takes concurrent restore and delete
\* requests for one session id, none ends in an unhandled error, none sees the
\* session while another is between its existence check and its removal, and
\* the answers and the final store are those of the requests run one after the
\* other in some order.
C10_Serializable ==
    /\ \A i \in 1..Len(tasks) : tasks[i].outcome.status # 500
    /\ \A i, j \in 1..Len(tasks) : (i # j /\ Removing(i)) => ~Observes(j)
    /\ AllDone => \E order \in Orders : SerialOK(order, 1, snapshot)

\* C10 witness: a restore on the expired session answered 410 and removed it,
\* and a delete in flight with it answered 404
C10_Witness ==
    /\ AllDone
    /\ \E i, j \in 1..Len(tasks) :
          /\ tasks[i].op = "restore" /\ tasks[i].outcome.status = 410
          /\ tasks[j].op = "delete" /\ tasks[j].outcome.status = 404
    /\ SESSIONS = <<>>

----------------------------------------------------------------------------
(* restore of src/app.py on text the external processor has rewritten: one  *)
(* mapping entry, an occurrence of its fake value as the processor wrote    *)
(* it, and the text around it.                                              *)

\* generate_clean_name() values of realistic length (fake.first_name() last_name())
ProcNameFakes == {<<"A", "m", "y", " ", "K", "e", "n", "t">>, <<"M", "a", "d", "i", "s", "o", "n", " ", "J", "a", "c", "k", "s", "o", "n">>}
\* the originals found in the input text: same word count, or a title in front
ProcNameOriginals == {<<"S", "u", "e", " ", "R", "e", "e", "d">>, <<"D", "r", ".", " ", "S", "u", "e", " ", "R", "e", "e", "d">>}
\* first words the processor writes in place of the fake first name
ProcFirstWords == {<<"A", "n", "n">>, <<"A", ".">>}
\* the phone numbers found in the input text
ProcPhoneOriginals == {<<"(", "2", "1", "2", ")", " ", "5", "5", "5", "-", "0", "1", "0", "0">>, <<"2", "1", "2", ".", "5", "5", "5", ".", "0", "1", "0", "0">>}
ProcForms == {"dots", "spaces", "parens", "mixed"}
ProcPrefixes == {<<>>, <<"H", "i", " ">>}
ProcSuffixes == {<<>>, <<" ", "o", "k", ".">>}

\* the last word of a value
LastWord(s) == Split(s)[Len(Split(s))]

\* the 11 digits d of a phone number written with other separators
Reformat(d, form) ==
    LET a == SubSeq(d, 2, 4)
        b == SubSeq(d, 5, 7)
        c == SubSeq(d, 8, 11)
    IN CASE form = "dots" -> <<"+", "1", ".">> \o a \o <<".">> \o b \o <<".">> \o c
         [] form = "spaces" -> <<"+", "1", " ">> \o a \o <<" ">> \o b \o <<" ">> \o c
         [] form = "parens" -> <<"+", "1", " ", "(">> \o a \o <<")", " ">> \o b \o <<"-">> \o c
         [] OTHER -> <<"1", " ", "(">> \o a \o <<")">> \o b \o <<".">> \o c

\* the digits the processor keeps of a phone number
DigitsOf(s) == SelectSeq(s, LAMBDA ch : ch \in Digits)

\* d with another last digit
OtherDigits(d) == [d EXCEPT ![Len(d)] = "9"]

\* what the processor sends back for one entry of the mapping
ProcCases ==
    {[kind |-> "name", fake |-> f, original |-> o, same |-> TRUE,
      sent |-> w \o <<" ">> \o LastWord(f)] :
        f \in ProcNameFakes, o \in ProcNameOriginals, w \in ProcFirstWords}
    \cup
    {[kind |-> "phone", fake |-> f, original |-> o, same |-> same,
      sent |-> Reformat(IF same THEN DigitsOf(f) ELSE OtherDigits(DigitsOf(f)), form)] :
        f \in generate_clean_phone, o \in ProcPhoneOriginals,
        same \in BOOLEAN, form \in ProcForms}

\* another entry of the same mapping, of the other kind
ProcOtherEntries(kind) ==
    {<<>>}
    \cup (IF kind = "phone"
          THEN {<<[key |-> f, value |-> o]>> : f \in ProcNameFakes, o \in {<<"S", "u", "e", " ", "R", "e", "e", "d">>}}
          ELSE {<<[key |-> f, value |-> <<"(", "2", "1", "2", ")", " ", "5", "5", "5", "-", "0", "1", "0", "0">>]>> :
                  f \in {g \in generate_clean_phone : \A h \in generate_clean_phone : Len(g) <= Len(h)}})

ProcInit ==
    /\ program = "app"
    /\ \E c \in ProcCases, pre \in ProcPrefixes, suf \in ProcSuffixes :
         \E others \in ProcOtherEntries(c.kind) :
            /\ result = <<[mapping |-> others \o <<[key |-> c.fake, value |-> c.original]>>,
                           case |-> c, prefix |-> pre, suffix |-> suf]>>
            /\ text = pre \o c.sent \o suf
    /\ findings = <<>>
    /\ restored = <<>>
    /\ model_fails = FALSE
    /\ SESSIONS = <<>> /\ now = 0 /\ uuid = 0 /\ response = NoResponse
    /\ LoopIdle

\* POST /v1/restore of src/app.py, from "text = req.text" on
proc_restore ==
    /\ restored = <<>>
    /\ restored' = <<restore_text(result[1].mapping, text)>>
    /\ UNCHANGED <<storeVars, text, findings, model_fails, result, loopVars>>

ProcNext == proc_restore

SpecProc == ProcInit /\ [][ProcNext]_vars

----------------------------------------------------------------------------
(* Claims about restore on rewritten text, checked under SpecProc *)

\* the text with the occurrence replaced by the entry's original
Recovered == result[1].prefix \o result[1].case.original \o result[1].suffix

\* C11: when the processor keeps the last word of a multi-word fake value and
\* alters its first word, restore puts the entry's original full value in
\* place of the occurrence, for originals of the same word count and of a
\* different word count.
C11_FuzzyFullValue ==
    (restored # <<>> /\ result[1].case.kind = "name") => restored[1] = Recovered

\* C12: an occurrence of a fake phone number's digits written with other
\* separators is replaced as a whole by the original phone number, and
\* phone-shaped text of other digits is left as it is.
C12_PhoneReformatted ==
    (restored # <<>> /\ result[1].case.kind = "phone") =>
        IF result[1].case.same THEN restored[1] = Recovered ELSE restored[1] = text

\* C12 witness: a fake number sent back with parentheses inside a sentence was
\* restored, next to a name entry in the same mapping
C12_Witness ==
    /\ restored # <<>>
    /\ result[1].case.kind = "phone"
    /\ result[1].case.same
    /\ Contains(text, <<"(">>)
    /\ result[1].prefix # <<>> /\ result[1].suffix # <<>>
    /\ Len(result[1].mapping) = 2
    /\ restored[1] = Recovered
    /\ restored[1] # text

====
